---- MODULE Spec2Model ----
(***************************************************************************)
(* Model of risk_index_map.py, the Termite Risk Index Viewer.              *)
(*                                                                         *)
(* The program is a Streamlit script: every user interaction re-executes   *)
(* the whole script top to bottom.  What survives from one run to the next *)
(* is st.session_state (selected, nearby_df, active_tab) and the values of *)
(* the sidebar widgets (radius_toggle, search_choice).  One action of the  *)
(* model is one interaction together with the script run it triggers; a    *)
(* run that ends in st.rerun() leaves rerun = TRUE and the only step then  *)
(* possible is the re-run.  Init is the session before its first run.      *)
(*                                                                         *)
(* Geometry.  All modelled points lie on one meridian (lon = 0), where the *)
(* haversine formula of haversine_vec reduces exactly to R * |dphi|.  A    *)
(* latitude is written as the length of its meridian arc in centimetres,   *)
(* so distances are integers in centimetres and radius_m = feet * 0.3048   *)
(* metres is feet * 3048 / 100 centimetres.  A coordinate can also be NaN  *)
(* (an empty cell), a text that is no number, or the float inf, which      *)
(* read_csv and pd.to_numeric accept as a number.                          *)
(*                                                                         *)
(* Sorting.  DataFrame.sort_values("dist_m") at line 175 is called without *)
(* kind=, i.e. with numpy's quicksort, which does not promise the order of *)
(* rows with equal keys.  The order it produces is fixed for one build and *)
(* one input, so it is modelled by tieOrder, a priority over the rows of   *)
(* the dataset chosen once in Init and never changed.                      *)
(*                                                                         *)
(* The map widget.  st_folium is an external component; it is modelled as  *)
(* reporting a click (last_clicked) to the one script run the click        *)
(* triggers and None to every other run.                                   *)
(*                                                                         *)
(* Column names are sequences of one-character strings, so that lower()    *)
(* and startswith() of find_col are computed and not assumed.              *)
(***************************************************************************)
EXTENDS Integers, Sequences, FiniteSets, TLC

\* ---------------------------------------------------------------------
\* Bounds of the model
\* ---------------------------------------------------------------------
MaxRows == 2

MaxCols == 2

MaxCands == 2

\* an empty cell; also what pd.to_numeric(errors="coerce") makes of a text
NaN == 0 - 1

\* the float inf: read_csv and pd.to_numeric parse the text "inf" to it
Inf == 0 - 2

\* a cell whose text is not a number
Unparseable == 0 - 3

Addrs == {"a", "b"}

Lats == {0, 6096, 15240}

ClickLats == {3048, 7620, 40000}

RefLats == Lats \cup ClickLats \cup {6097}

RawRows == [addr : Addrs, lat : Lats \cup {NaN, Inf}, lon : {0}]

RECURSIVE SeqsUpTo(_, _)
SeqsUpTo(S, n) ==
    IF n = 0 THEN {<< >>}
    ELSE LET shorter == SeqsUpTo(S, n - 1)
         IN  shorter \cup {Append(s, x) : s \in {t \in shorter : Len(t) = n - 1}, x \in S}

TieOrders(n) ==
    {f \in [1..n -> 1..n] : \A i, j \in 1..n : f[i] = f[j] => i = j}

\* ---------------------------------------------------------------------
\* State
\* ---------------------------------------------------------------------
VARIABLES
    csv,            \* the rows load_data() returns, in file order
    columns,        \* df.columns of the frame load_data() returns
    roles,          \* lat_col, lon_col, ...: the same in every run, as
                    \* find_col is a function of df.columns
    tieOrder,       \* how this build's quicksort orders rows of equal dist_m
    radius_toggle,  \* value of the radius radio widget (ft)
    search_choice,  \* value of the search selectbox
    selected,       \* st.session_state.selected
    nearby_df,      \* st.session_state.nearby_df
    active_tab,     \* st.session_state.active_tab
    rerun,          \* the last run ended in st.rerun()
    error,          \* uncaught exception of the last run, or "none"
    toast,          \* notice shown by the last run, or "none"
    event,          \* the last interaction of the user
    ran,            \* the sections of the script the last run entered
    st_error,       \* the columns the st.error message of the last run names
    table,          \* the table the tab2 block of the last run displayed
    df_obj,         \* the frame bound to df when the last run ended
    candidates,     \* find_col on its own: the candidate list
    found           \* find_col on its own: the value returned

vars == <<csv, columns, roles, tieOrder, radius_toggle, search_choice, selected,
          nearby_df, active_tab, rerun, error, toast, event, ran, st_error,
          table, df_obj, candidates, found>>

None == [none |-> TRUE]

EmptyFrame == << >>

NoTable == [cols |-> << >>, rows |-> << >>]

Abs(x) == IF x < 0 THEN 0 - x ELSE x

\* ---------------------------------------------------------------------
\* Auto-detect columns
\* ---------------------------------------------------------------------
\* the None that find_col returns
NoCol == <<"None">>

\* str.lower() on the letters that occur in upper case
LowerChar(c) ==
    CASE c = "A" -> "a"
      [] c = "B" -> "b"
      [] c = "F" -> "f"
      [] OTHER   -> c

Lower(name) == [i \in DOMAIN name |-> LowerChar(name[i])]

\* str.startswith
StartsWith(s, p) == Len(p) <= Len(s) /\ SubSeq(s, 1, Len(p)) = p

\* cols_l = [c.lower() for c in cols]
cols_l(cols) == [i \in DOMAIN cols |-> Lower(cols[i])]

\* list.index: the first position of x
IndexOf(seq, x) ==
    CHOOSE i \in DOMAIN seq : seq[i] = x /\ \A j \in DOMAIN seq : j < i => seq[j] # x

\* for cand in candidates: if cand.lower() in cols_l: return cols[...]
RECURSIVE ExactLoop(_, _, _)
ExactLoop(cols, cands, k) ==
    IF k > Len(cands) THEN NoCol
    ELSE IF \E i \in DOMAIN cols : cols_l(cols)[i] = Lower(cands[k])
         THEN cols[IndexOf(cols_l(cols), Lower(cands[k]))]
         ELSE ExactLoop(cols, cands, k + 1)

\* for cand in candidates: for i, c in enumerate(cols): if c.lower().startswith(...)
RECURSIVE PrefixLoop(_, _, _)
PrefixLoop(cols, cands, k) ==
    IF k > Len(cands) THEN NoCol
    ELSE LET hits == {i \in DOMAIN cols : StartsWith(Lower(cols[i]), Lower(cands[k]))}
         IN  IF hits # {}
             THEN cols[CHOOSE i \in hits : \A j \in hits : i <= j]
             ELSE PrefixLoop(cols, cands, k + 1)

\* a slip: the prefix loop alone, an exact match being a prefix match too
find_col_PrefixOnly(cols, cands) == PrefixLoop(cols, cands, 1)

find_col(cols, cands) ==
    LET exact == ExactLoop(cols, cands, 1)
    IN  IF exact # NoCol THEN exact ELSE PrefixLoop(cols, cands, 1)

c_latitude == <<"l", "a", "t", "i", "t", "u", "d", "e">>

c_longitude == <<"l", "o", "n", "g", "i", "t", "u", "d", "e">>

c_matched_address == <<"m", "a", "t", "c", "h", "e", "d", "_", "a", "d", "d", "r", "e", "s", "s">>

c_street == <<"s", "t", "r", "e", "e", "t">>

c_risk_level == <<"r", "i", "s", "k", "_", "l", "e", "v", "e", "l">>

c_risk_score == <<"r", "i", "s", "k", "_", "s", "c", "o", "r", "e">>

c_most_recent_insp == <<"m", "o", "s", "t", "_", "r", "e", "c", "e", "n", "t", "_", "i", "n", "s", "p">>

c_num_inspections == <<"n", "u", "m", "_", "i", "n", "s", "p", "e", "c", "t", "i", "o", "n", "s">>

c_distance_ft == <<"D", "i", "s", "t", "a", "n", "c", "e", " ", "(", "f", "t", ")">>

\* lines 80-87: the column of every role
ResolveRoles(cols) ==
    [lat    |-> find_col(cols, <<<<"l", "a", "t", "i", "t", "u", "d", "e">>, <<"l", "a", "t">>>>),
     lon    |-> find_col(cols, <<<<"l", "o", "n", "g", "i", "t", "u", "d", "e">>, <<"l", "o", "n">>, <<"l", "n", "g">>>>),
     addr   |-> find_col(cols, <<<<"m", "a", "t", "c", "h", "e", "d", "_", "a", "d", "d", "r", "e", "s", "s">>, <<"a", "d", "d", "r", "e", "s", "s">>,
                                 <<"f", "u", "l", "l", "_", "a", "d", "d", "r", "e", "s", "s">>, <<"s", "e", "a", "r", "c", "h", " ", "a", "d", "d", "r", "e", "s", "s">>>>),
     street |-> find_col(cols, <<<<"s", "t", "r", "e", "e", "t">>, <<"s", "t", "r", "e", "e", "t", "_", "n", "a", "m", "e">>, <<"F", "u", "l", "l", "A", "d", "d", "r", "e", "s", "s">>>>),
     risk   |-> find_col(cols, <<<<"r", "i", "s", "k", "_", "l", "e", "v", "e", "l">>, <<"r", "i", "s", "k">>, <<"c", "a", "t", "e", "g", "o", "r", "y">>>>),
     score  |-> find_col(cols, <<<<"r", "i", "s", "k", "_", "s", "c", "o", "r", "e">>, <<"s", "c", "o", "r", "e">>>>),
     recent |-> find_col(cols, <<<<"m", "o", "s", "t", " ", "r", "e", "c", "e", "n", "t", " ", "i", "n", "s", "p", "e", "c", "t", "i", "o", "n">>,
                                 <<"m", "o", "s", "t", "_", "r", "e", "c", "e", "n", "t", "_", "i", "n", "s", "p">>>>),
     num    |-> find_col(cols, <<<<"#", " ", "o", "f", " ", "i", "n", "s", "p", "e", "c", "t", "i", "o", "n", "s">>, <<"n", "u", "m", "_", "i", "n", "s", "p", "e", "c", "t", "i", "o", "n", "s">>,
                                 <<"t", "o", "t", "a", "l", "_", "i", "n", "s", "p", "e", "c", "t", "i", "o", "n", "s">>>>)]

lat_col == roles.lat

lon_col == roles.lon

addr_col == roles.addr

street_col == roles.street

risk_col == roles.risk

risk_score_col == roles.score

recent_insp_col == roles.recent

num_insp_col == roles.num

\* a slip: the check forgets risk_col
RequiredResolved_NoRisk == ~(lat_col = NoCol \/ lon_col = NoCol)

\* if not lat_col or not lon_col or not risk_col: st.error(...); st.stop()
RequiredResolved == ~(lat_col = NoCol \/ lon_col = NoCol \/ risk_col = NoCol)

\* "CSV must contain latitude, longitude, and risk_level columns."
RequiredReport == {c_latitude, c_longitude, c_risk_level}

NoReport == {}

\* the header with a column for every role, and the headers that lack some
FullHeader ==
    <<c_latitude, c_longitude, c_matched_address, c_street, c_risk_level,
      c_risk_score, c_most_recent_insp, c_num_inspections>>

RECURSIVE SubHeaders(_)
SubHeaders(h) ==
    IF h = << >> THEN {<< >>}
    ELSE LET rest == SubHeaders(Tail(h))
         IN  rest \cup {<<Head(h)>> \o t : t \in rest}

\* a risk_score column only next to a risk_level column (alone it would be
\* taken for the risk category by the prefix "risk")
Headers ==
    {h \in SubHeaders(FullHeader) :
        (\E i \in DOMAIN h : h[i] = c_risk_score)
            => (\E i \in DOMAIN h : h[i] = c_risk_level)}

\* ---------------------------------------------------------------------
\* Prepare Data
\* ---------------------------------------------------------------------
\* pd.to_numeric(errors="coerce")
ToNumeric(v) == IF v = Unparseable THEN NaN ELSE v

\* to_numeric on both columns, dropna(subset=[lat_col, lon_col]), reset_index
RECURSIVE DropNa(_)
DropNa(rows) ==
    IF rows = << >> THEN << >>
    ELSE LET r == Head(rows)
         IN  IF ToNumeric(r.lat) = NaN \/ ToNumeric(r.lon) = NaN
             THEN DropNa(Tail(rows))
             ELSE <<[r EXCEPT !.lat = ToNumeric(@), !.lon = ToNumeric(@)]>>
                      \o DropNa(Tail(rows))

df == DropNa(csv)

search_opts ==
    IF addr_col = NoCol THEN {} ELSE {csv[i].addr : i \in DOMAIN csv}

radius_m(rt) == (rt * 3048) \div 100

\* ---------------------------------------------------------------------
\* Distance Function
\* ---------------------------------------------------------------------
\* with an inf latitude dphi is inf or nan and sin(dphi / 2) is nan
haversine_vec(lat0, lon0, rows) ==
    [i \in DOMAIN rows |->
        IF lat0 = Inf \/ rows[i].lat = Inf THEN NaN
        ELSE Abs(rows[i].lat - lat0)]

\* ---------------------------------------------------------------------
\* Handle Search
\* ---------------------------------------------------------------------
\* a slip: sel_row.iloc[-1] instead of sel_row.iloc[0]
HandleSearch_LastRow(ctx, sc) ==
    LET sel_row == {i \in DOMAIN df : df[i].addr = sc}
    IN  IF sc # "" /\ sel_row # {}
        THEN LET last == CHOOSE i \in sel_row : \A j \in sel_row : i >= j
             IN  [ctx EXCEPT !.selected = df[last], !.active_tab = "table"]
        ELSE ctx

\* a slip: a search that finds nothing clears the selection
HandleSearch_ClearOnMiss(ctx, sc) ==
    LET sel_row == {i \in DOMAIN df : df[i].addr = sc}
    IN  IF sc # "" /\ sel_row # {}
        THEN LET first == CHOOSE i \in sel_row : \A j \in sel_row : i <= j
             IN  [ctx EXCEPT !.selected = df[first], !.active_tab = "table"]
        ELSE IF sc # ""
        THEN [ctx EXCEPT !.selected = None, !.active_tab = "map"]
        ELSE ctx

\* sel_row = df[df[addr_col] == search_choice]; sel_row.iloc[0]
HandleSearch(ctx, sc) ==
    LET sel_row == {i \in DOMAIN df : df[i].addr = sc}
    IN  IF sc # "" /\ sel_row # {}
        THEN LET first == CHOOSE i \in sel_row : \A j \in sel_row : i <= j
             IN  [ctx EXCEPT !.selected = df[first], !.active_tab = "table"]
        ELSE ctx

\* ---------------------------------------------------------------------
\* Map Builders
\* ---------------------------------------------------------------------
\* a slip: dist_m < radius_m
NearbyFilter_Strict(dist, rt) ==
    {i \in DOMAIN dist : dist[i] # NaN /\ dist[i] < radius_m(rt)}

\* temp_df[temp_df["dist_m"] <= radius_m]; nan <= radius_m is False
NearbyFilter(dist, rt) ==
    {i \in DOMAIN dist : dist[i] # NaN /\ dist[i] <= radius_m(rt)}

\* (dist_m * 3.28084).round(0): round half to even, in whole feet
\* (3.28084 / 100 per centimetre = 82021 / 2500000)
DistanceFt(dist_cm) ==
    LET n == dist_cm * 82021
        d == 2500000
        q == n \div d
        r == n % d
    IN  IF 2 * r < d THEN q
        ELSE IF 2 * r > d THEN q + 1
        ELSE IF q % 2 = 0 THEN q ELSE q + 1

\* nearby_df.sort_values("dist_m", ascending=True): row i comes before row j
Before(dist, i, j) ==
    \/ dist[i] < dist[j]
    \/ dist[i] = dist[j] /\ tieOrder[i] < tieOrder[j]

\* sort_values(...).reset_index(drop=True) and "Distance Rank" = index + 1;
\* the field row keeps the label the row had in df before reset_index
sort_values(kept, dist) ==
    LET pos(i) == 1 + Cardinality({j \in kept : Before(dist, j, i)})
    IN  [k \in 1..Cardinality(kept) |->
            LET i == CHOOSE x \in kept : pos(x) = k
            IN  [rec |-> df[i], row |-> i, dist_m |-> dist[i],
                 dist_ft |-> DistanceFt(dist[i]), rank |-> k]]

build_focused_map_and_nearby(selected_dict, rt) ==
    LET dist == haversine_vec(selected_dict.lat, selected_dict.lon, df)
        kept == NearbyFilter(dist, rt)
    IN  IF kept = {} THEN EmptyFrame ELSE sort_values(kept, dist)

\* a slip: temp_df = df without .copy(): dist_m is written into df itself
temp_df_InPlace(d, selected_dict) ==
    LET dist == haversine_vec(selected_dict.lat, selected_dict.lon, d)
    IN  [i \in DOMAIN d |->
            [addr |-> d[i].addr, lat |-> d[i].lat, lon |-> d[i].lon,
             dist_m |-> dist[i]]]

\* temp_df = df.copy(); temp_df["dist_m"] = ...: what df is after the query
temp_df(d, selected_dict) == d

\* ---------------------------------------------------------------------
\* Tabs
\* ---------------------------------------------------------------------
\* with tab1: up to the st_folium call
Tab1Block(ctx, rt) ==
    IF ctx.selected = None
    THEN ctx
    ELSE LET nearby == build_focused_map_and_nearby(ctx.selected, rt)
         IN  [ctx EXCEPT !.nearby_df = nearby,
                         !.df_obj = temp_df(@, ctx.selected),
                         !.toast = IF nearby = EmptyFrame
                                   THEN "no_nearby_selected" ELSE @]

NoClick == [kind |-> "none", lat |-> 0]

\* np.argmin: the first index of the minimum; a nan counts as the minimum
nearest_idx(distances) ==
    LET nans == {i \in DOMAIN distances : distances[i] = NaN}
    IN  IF nans # {}
        THEN CHOOSE i \in nans : \A j \in nans : i <= j
        ELSE CHOOSE i \in DOMAIN distances :
                /\ \A j \in DOMAIN distances : distances[i] <= distances[j]
                /\ \A j \in DOMAIN distances : j < i => distances[j] > distances[i]

\* if distances[nearest_idx] > radius_m: toast, selected = None, tab = "map"
ClickNoMatch(ctx) ==
    [ctx EXCEPT !.toast = "no_nearby_click", !.selected = None,
                !.active_tab = "map"]

\* else: selected = nearest_row.to_dict(), tab = "table", st.rerun()
ClickMatch(ctx, nearest_row) ==
    [ctx EXCEPT !.selected = nearest_row, !.active_tab = "table",
                !.rerun = TRUE]

\* a slip: the except branch forgets active_tab
ClickExcept_KeepTab(ctx) ==
    [ctx EXCEPT !.toast = "click_error", !.selected = None]

\* except Exception: toast, selected = None, tab = "map"
ClickExcept(ctx) ==
    [ctx EXCEPT !.toast = "click_error", !.selected = None,
                !.active_tab = "map"]

\* if map_data and map_data.get("last_clicked") is not None: try ... except
\* (nan > radius_m is False)
ClickHandler(ctx, md, rt) ==
    IF md.kind = "none" THEN ctx
    ELSE IF md.kind = "bad" THEN ClickExcept(ctx)
    ELSE LET distances == haversine_vec(md.lat, 0, df)
             idx       == nearest_idx(distances)
         IN  IF distances[idx] # NaN /\ distances[idx] > radius_m(rt)
             THEN ClickNoMatch(ctx)
             ELSE ClickMatch(ctx, df[idx])

\* table_cols: street and risk, then the optional columns that are resolved
table_cols ==
    <<street_col, risk_col>>
        \o (IF risk_score_col # NoCol THEN <<risk_score_col>> ELSE << >>)
        \o <<c_distance_ft>>
        \o (IF recent_insp_col # NoCol THEN <<recent_insp_col>> ELSE << >>)
        \o (IF num_insp_col # NoCol THEN <<num_insp_col>> ELSE << >>)

\* a slip: a sort that is not stable (rows with equal feet change places)
display_sort_Unstable(frame) ==
    LET before(i, j) == \/ frame[i].dist_ft < frame[j].dist_ft
                        \/ frame[i].dist_ft = frame[j].dist_ft /\ i > j
        pos(i) == 1 + Cardinality({j \in DOMAIN frame : before(j, i)})
    IN  [k \in DOMAIN frame |-> frame[CHOOSE i \in DOMAIN frame : pos(i) = k]]

\* sort_df.sort_values(by="_dist_ft_num", ascending=True, kind="stable")
display_sort(frame) ==
    LET before(i, j) == \/ frame[i].dist_ft < frame[j].dist_ft
                        \/ frame[i].dist_ft = frame[j].dist_ft /\ i < j
        pos(i) == 1 + Cardinality({j \in DOMAIN frame : before(j, i)})
    IN  [k \in DOMAIN frame |-> frame[CHOOSE i \in DOMAIN frame : pos(i) = k]]

\* with tab2: nearby_df[table_cols] needs every name of table_cols to be a
\* column; st.session_state.selected.get(...) needs a selection
Tab2Block(ctx) ==
    LET entered == [ctx EXCEPT !.ran = @ \cup {"tab2"}]
    IN  IF ctx.nearby_df = EmptyFrame THEN entered
        ELSE IF street_col = NoCol
        THEN [entered EXCEPT !.error = "KeyError"]
        ELSE IF ctx.selected = None
        THEN [entered EXCEPT !.error = "AttributeError"]
        ELSE [entered EXCEPT !.table =
                 [cols |-> table_cols, rows |-> display_sort(ctx.nearby_df)]]

\* the run enters a section of the script
Enter(ctx, sections) == [ctx EXCEPT !.ran = @ \cup sections]

\* one execution of the script with the widget values rt, sc and map_data md
ScriptRun(rt, sc, md) ==
    LET start   == [selected |-> selected, nearby_df |-> nearby_df,
                    active_tab |-> active_tab, toast |-> "none",
                    rerun |-> FALSE, error |-> "none",
                    ran |-> {"columns"}, st_error |-> NoReport,
                    table |-> NoTable, df_obj |-> df_obj]
    IN  IF ~RequiredResolved
        THEN [start EXCEPT !.st_error = RequiredReport]
        ELSE LET ready   == [Enter(start, {"sidebar", "prepare", "session"})
                                EXCEPT !.df_obj = df]
                 found_  == HandleSearch(Enter(ready, {"search"}), sc)
                 mapped  == Tab1Block(Enter(found_, {"tab1"}), rt)
                 clicked == IF md.kind = "none" THEN mapped
                            ELSE ClickHandler(Enter(mapped, {"click"}), md, rt)
             IN  IF clicked.rerun THEN clicked ELSE Tab2Block(clicked)

Commit(ctx) ==
    /\ selected'   = ctx.selected
    /\ nearby_df'  = ctx.nearby_df
    /\ active_tab' = ctx.active_tab
    /\ toast'      = ctx.toast
    /\ rerun'      = ctx.rerun
    /\ error'      = ctx.error
    /\ ran'        = ctx.ran
    /\ st_error'   = ctx.st_error
    /\ table'      = ctx.table
    /\ df_obj'     = ctx.df_obj

\* ---------------------------------------------------------------------
\* Initial state and interactions
\* ---------------------------------------------------------------------
InitWith(headers, rows) ==
    /\ csv \in {s \in SeqsUpTo(rows, MaxRows) : DropNa(s) # << >>}
    /\ columns \in headers
    /\ roles = ResolveRoles(columns)
    /\ tieOrder \in TieOrders(Len(DropNa(csv)))
    /\ radius_toggle = 200
    /\ search_choice = ""
    /\ selected = None
    /\ nearby_df = EmptyFrame
    /\ active_tab = "map"
    /\ rerun = FALSE
    /\ error = "none"
    /\ toast = "none"
    /\ event = [type |-> "init", addr |-> "", lat |-> 0]
    /\ ran = {}
    /\ st_error = NoReport
    /\ table = NoTable
    /\ df_obj = << >>
    /\ candidates = << >>
    /\ found = NoCol

Init == InitWith({FullHeader}, RawRows)

\* the page is loaded, or the user asks for a re-run
PageRun ==
    /\ ~rerun
    /\ Commit(ScriptRun(radius_toggle, search_choice, NoClick))
    /\ event' = [type |-> "run", addr |-> "", lat |-> 0]
    /\ UNCHANGED <<csv, columns, roles, tieOrder, radius_toggle, search_choice,
                   candidates, found>>

SearchSelect(a) ==
    /\ ~rerun
    /\ "sidebar" \in ran
    /\ a # search_choice
    /\ search_choice' = a
    /\ Commit(ScriptRun(radius_toggle, a, NoClick))
    /\ event' = [type |-> "search", addr |-> a, lat |-> 0]
    /\ UNCHANGED <<csv, columns, roles, tieOrder, radius_toggle, candidates, found>>

ChangeRadius(r) ==
    /\ ~rerun
    /\ "sidebar" \in ran
    /\ r # radius_toggle
    /\ radius_toggle' = r
    /\ Commit(ScriptRun(r, search_choice, NoClick))
    /\ event' = [type |-> "radius", addr |-> "", lat |-> 0]
    /\ UNCHANGED <<csv, columns, roles, tieOrder, search_choice, candidates, found>>

MapClick(p) ==
    /\ ~rerun
    /\ "tab1" \in ran
    /\ Commit(ScriptRun(radius_toggle, search_choice, [kind |-> "click", lat |-> p]))
    /\ event' = [type |-> "click", addr |-> "", lat |-> p]
    /\ UNCHANGED <<csv, columns, roles, tieOrder, radius_toggle, search_choice,
                   candidates, found>>

MapClickError ==
    /\ ~rerun
    /\ "tab1" \in ran
    /\ Commit(ScriptRun(radius_toggle, search_choice, [kind |-> "bad", lat |-> 0]))
    /\ event' = [type |-> "badclick", addr |-> "", lat |-> 0]
    /\ UNCHANGED <<csv, columns, roles, tieOrder, radius_toggle, search_choice,
                   candidates, found>>

Rerun ==
    /\ rerun
    /\ Commit(ScriptRun(radius_toggle, search_choice, NoClick))
    /\ UNCHANGED <<csv, columns, roles, tieOrder, radius_toggle, search_choice, event,
                   candidates, found>>

Next ==
    \/ PageRun
    \/ \E a \in {""} \cup search_opts : SearchSelect(a)
    \/ \E r \in {200, 300} : ChangeRadius(r)
    \/ \E p \in ClickLats : MapClick(p)
    \/ MapClickError
    \/ Rerun

Spec == Init /\ [][Next]_vars

\* The Proximity Query on its own: any reference point, both radii
QueryStep(lat, r) ==
    /\ selected' = [addr |-> "a", lat |-> lat, lon |-> 0]
    /\ radius_toggle' = r
    /\ nearby_df' = build_focused_map_and_nearby(selected', r)
    /\ event' = [type |-> "query", addr |-> "", lat |-> lat]
    /\ UNCHANGED <<csv, columns, roles, tieOrder, search_choice, active_tab, rerun,
                   error, toast, ran, st_error, table, df_obj, candidates, found>>

NextQuery == \E lat \in RefLats, r \in {200, 300} : QueryStep(lat, r)

SpecQuery == Init /\ [][NextQuery]_vars

\* Every header: roles resolved or not, on a small dataset
RoleRows == [addr : {"a"}, lat : {0, 6096}, lon : {0}]

InitRoles == InitWith(Headers, RoleRows)

SpecRoles == InitRoles /\ [][Next]_vars

\* find_col on its own: any list of column names, any list of candidates
Names == {<<"a">>, <<"A">>, <<"a", "b">>, <<"A", "B">>, <<"b">>}

InitFind ==
    /\ columns \in SeqsUpTo(Names, MaxCols)
    /\ candidates \in SeqsUpTo(Names, MaxCands)
    /\ found = NoCol
    /\ csv = << >>
    /\ roles = ResolveRoles(columns)
    /\ tieOrder = << >>
    /\ radius_toggle = 200
    /\ search_choice = ""
    /\ selected = None
    /\ nearby_df = EmptyFrame
    /\ active_tab = "map"
    /\ rerun = FALSE
    /\ error = "none"
    /\ toast = "none"
    /\ event = [type |-> "init", addr |-> "", lat |-> 0]
    /\ ran = {}
    /\ st_error = NoReport
    /\ table = NoTable
    /\ df_obj = << >>

FindStep ==
    /\ found' = find_col(columns, candidates)
    /\ event' = [type |-> "find_col", addr |-> "", lat |-> 0]
    /\ UNCHANGED <<csv, columns, roles, tieOrder, radius_toggle, search_choice,
                   selected, nearby_df, active_tab, rerun, error, toast, ran,
                   st_error, table, df_obj, candidates>>

NextFind == FindStep

SpecFind == InitFind /\ [][NextFind]_vars

\* Sanitization: cells that are numbers, empty, text that is no number, inf
SanRows == [addr : {"a"}, lat : {0, 6096, NaN, Unparseable, Inf}, lon : {0, NaN}]

InitSanitize == InitWith({FullHeader}, SanRows)

SpecSanitize == InitSanitize /\ [][Next]_vars

\* The table: Records ten centimetres apart round to the same whole feet
TableRows == [addr : Addrs, lat : {0, 10, 6096}, lon : {0}]

InitTable == InitWith({FullHeader}, TableRows)

SpecTable == InitTable /\ [][Next]_vars
\* ---------------------------------------------------------------------
\* Properties
\* ---------------------------------------------------------------------
FoundAddr(a) == a # "" /\ \E i \in DOMAIN df : df[i].addr = a

\* the first Record of the sanitized dataset whose address is a
IsFirstWithAddr(rec, a) ==
    \E i \in DOMAIN df :
        /\ df[i].addr = a
        /\ \A j \in DOMAIN df : j < i => df[j].addr # a
        /\ rec = df[i]

\* the distance in cm as the code computes it: nan where an inf is involved
DistCm(lat0, i) ==
    IF lat0 = Inf \/ df[i].lat = Inf THEN NaN ELSE Abs(df[i].lat - lat0)

\* the distance the click handler reads at np.argmin: nan if any is nan
MinDistCm(lat0) ==
    IF \E i \in DOMAIN df : DistCm(lat0, i) = NaN THEN NaN
    ELSE CHOOSE d \in {DistCm(lat0, i) : i \in DOMAIN df} :
             \A i \in DOMAIN df : d <= DistCm(lat0, i)

\* radius in ft against a distance in cm: d <= ft * 0.3048 m
WithinRadius(d, ft) == d # NaN /\ d * 100 <= ft * 3048

\* the Record np.argmin picks: the first one at the minimum distance
IsNearest(rec, lat0) ==
    \E i \in DOMAIN df :
        /\ DistCm(lat0, i) = MinDistCm(lat0)
        /\ \A j \in DOMAIN df : j < i => DistCm(lat0, j) # MinDistCm(lat0)
        /\ rec = df[i]

\* C1: after every completed interaction the stored result set is the
\* Proximity Query of the current selection at the current radius, and with
\* no selection no result set of an earlier selection is left.
C1_ResultsNeverStale ==
    ~rerun =>
        IF selected = None
        THEN nearby_df = EmptyFrame
        ELSE nearby_df = build_focused_map_and_nearby(selected, radius_toggle)

\* C2: a recoverable condition never raises: no script run, in particular
\* none after a map click outside the radius, ends in an uncaught exception.
C2_RecoverableNeverRaises == error = "none"

\* C3: once a map click whose nearest Record is within the radius has
\* settled, selected is that Record, results is its Proximity Query at the
\* current radius and the active view is the detail view.
C3_ClickSelectsNearest ==
    (event.type = "click" /\ ~rerun
        /\ WithinRadius(MinDistCm(event.lat), radius_toggle)) =>
        /\ IsNearest(selected, event.lat)
        /\ nearby_df = build_focused_map_and_nearby(selected, radius_toggle)
        /\ active_tab = "table"

\* Record i is farther from the point lat0 than the radius: its distance
\* exceeds ft * 0.3048 m, or its latitude is not finite
FartherThan(lat0, i, ft) ==
    df[i].lat = Inf \/ Abs(df[i].lat - lat0) * 100 > ft * 3048

\* C4: a map click from which every Record is farther than the radius ends
\* the run with no selection and the overview (active_tab = "map").
C4_ClickOutsideClears ==
    (event.type = "click"
        /\ \A i \in DOMAIN df : FartherThan(event.lat, i, radius_toggle)) =>
        /\ ~rerun
        /\ selected = None
        /\ active_tab = "map"

\* C5: at the end of every script run the active view is the detail view
\* (active_tab = "table") only if a Record is selected.
C5_DetailOnlyWithSelection == active_tab = "table" => selected # None

\* a click that failed with an exception while a Record was selected
C5_Witness ==
    /\ event.type = "badclick"
    /\ nearby_df # EmptyFrame
    /\ selected = None
    /\ active_tab = "map"

\* C6: a search for an address that some Record has ends the run with the
\* first Record of that address selected, its Proximity Query at the current
\* radius as results and the detail view active.
C6_SearchSelectsFirst ==
    (event.type = "search" /\ FoundAddr(event.addr)) =>
        /\ ~rerun
        /\ IsFirstWithAddr(selected, event.addr)
        /\ nearby_df = build_focused_map_and_nearby(selected, radius_toggle)
        /\ active_tab = "table"

\* a search for an address that two different Records share
C6_Witness ==
    /\ event.type = "search"
    /\ FoundAddr(event.addr)
    /\ \E i, j \in DOMAIN df :
          i < j /\ df[i].addr = event.addr /\ df[j].addr = event.addr
                /\ df[i] # df[j]
    /\ selected # None

\* C7: a radius change with a Record selected keeps the selection and the
\* active view and replaces results by the Proximity Query of that Record at
\* the new radius (a function of the Record and the radius alone, so the same
\* radius gives the same result again); with no selection it changes nothing
\* but the radius.
C7_ChangeRadius ==
    [][radius_toggle' # radius_toggle =>
        IF selected # None
        THEN /\ selected' = selected
             /\ active_tab' = active_tab
             /\ nearby_df' = build_focused_map_and_nearby(selected, radius_toggle')
        ELSE /\ selected' = None
             /\ nearby_df' = nearby_df
             /\ active_tab' = active_tab]_vars

\* C8: a search for an address that is offered by the search box but matches
\* no Record of the sanitized dataset leaves selected, results and the active
\* view as they were.
C8_SearchMissNoChange ==
    [][(search_choice' # search_choice /\ search_choice' # ""
            /\ ~FoundAddr(search_choice')) =>
        /\ selected' = selected
        /\ nearby_df' = nearby_df
        /\ active_tab' = active_tab]_vars

\* a search for the address of a dropped row while a Record is selected
C8_Witness ==
    /\ event.type = "search"
    /\ event.addr # ""
    /\ ~FoundAddr(event.addr)
    /\ selected # None
    /\ nearby_df # EmptyFrame

\* C9: the Proximity Query result is ordered by non-decreasing distance and
\* Records at equal distance keep their dataset order.
C9_SortedStable ==
    \A i, j \in DOMAIN nearby_df :
        i < j =>
            /\ nearby_df[i].dist_m <= nearby_df[j].dist_m
            /\ nearby_df[i].dist_m = nearby_df[j].dist_m
                   => nearby_df[i].row < nearby_df[j].row

\* C10: a Record is in the Proximity Query result, exactly once, if and only
\* if its distance to the reference point is <= feet x 0.3048 m.
C10_RadiusInclusive ==
    selected # None =>
        /\ \A k \in DOMAIN nearby_df :
              /\ nearby_df[k].row \in DOMAIN df
              /\ nearby_df[k].rec = df[nearby_df[k].row]
        /\ \A i \in DOMAIN df :
              Cardinality({k \in DOMAIN nearby_df : nearby_df[k].row = i})
                  = IF WithinRadius(DistCm(selected.lat, i), radius_toggle)
                    THEN 1 ELSE 0

\* a query with one Record exactly at the radius and another one beyond it
C10_Witness ==
    /\ event.type = "query"
    /\ \E k \in DOMAIN nearby_df :
          nearby_df[k].dist_m * 100 = radius_toggle * 3048
    /\ Len(nearby_df) < Len(df)

\* the columns of the nearby-addresses table whose role is resolved
ResolvedTableCols ==
    SelectSeq(<<street_col, risk_col, risk_score_col, c_distance_ft,
                recent_insp_col, num_insp_col>>, LAMBDA c : c # NoCol)

\* C11: whichever optional roles are unresolved, a run that renders the
\* nearby-addresses table for a selected Record ends without an error and
\* the table has the resolved columns only.
C11_OptionalRolesDegrade ==
    (RequiredResolved /\ "tab2" \in ran /\ selected # None
        /\ nearby_df # EmptyFrame) =>
        /\ error = "none"
        /\ table.cols = ResolvedTableCols

\* a required role (latitude, longitude, risk category) is unresolved
RequiredRoleMissing ==
    lat_col = NoCol \/ lon_col = NoCol \/ risk_col = NoCol

\* C12: with a required role unresolved every run stops at the required-role
\* check: no later section of the script is entered (no sanitization, no
\* session-state initialisation, no search or click handling, no map or
\* table), nothing is selected, computed or displayed, and this stays so in
\* every later run on the same dataset.
C12_RequiredRoleStops ==
    RequiredRoleMissing =>
        /\ ran \subseteq {"columns"}
        /\ selected = None
        /\ nearby_df = EmptyFrame
        /\ active_tab = "map"
        /\ table = NoTable
        /\ df_obj = << >>
        /\ toast = "none"
        /\ ~rerun

\* a run on a dataset without a risk-category column has stopped at the check
C12_Witness ==
    /\ risk_col = NoCol
    /\ lat_col # NoCol
    /\ lon_col # NoCol
    /\ event.type = "run"
    /\ ran = {"columns"}
    /\ st_error # NoReport

\* the required roles that are unresolved, by the name the message gives them
MissingRequired ==
    {c \in RequiredReport :
        \/ c = c_latitude /\ lat_col = NoCol
        \/ c = c_longitude /\ lon_col = NoCol
        \/ c = c_risk_level /\ risk_col = NoCol}

\* C13: the error reported when a run stops at the required-role check names
\* exactly the required roles that are unresolved, so datasets missing
\* different required roles get different reports.
C13_ErrorNamesMissingRole ==
    ("columns" \in ran /\ RequiredRoleMissing) => st_error = MissingRequired

\* column c and candidate k are equal, case-insensitively
ExactAt(c, k) == Lower(columns[c]) = Lower(candidates[k])

\* column c starts with candidate k, case-insensitively
PrefixAt(c, k) == StartsWith(Lower(columns[c]), Lower(candidates[k]))

ExactCands == {k \in DOMAIN candidates : \E c \in DOMAIN columns : ExactAt(c, k)}

PrefixCands == {k \in DOMAIN candidates : \E c \in DOMAIN columns : PrefixAt(c, k)}

Least(S) == CHOOSE x \in S : \A y \in S : x <= y

Finite(v) == v # NaN /\ v # Inf /\ v # Unparseable

\* the rows of the CSV whose latitude and longitude are finite numbers
RECURSIVE FiniteRows(_)
FiniteRows(rows) ==
    IF rows = << >> THEN << >>
    ELSE IF Finite(Head(rows).lat) /\ Finite(Head(rows).lon)
         THEN <<Head(rows)>> \o FiniteRows(Tail(rows))
         ELSE FiniteRows(Tail(rows))

\* C15: after sanitization the dataset is the rows of the CSV with a finite
\* numeric latitude and longitude, in their original order, so the selected
\* Record and every Record of a result have finite coordinates.
C15_SanitizedFinite ==
    "prepare" \in ran =>
        /\ df_obj = FiniteRows(csv)
        /\ selected # None => Finite(selected.lat) /\ Finite(selected.lon)
        /\ \A k \in DOMAIN nearby_df :
              Finite(nearby_df[k].rec.lat) /\ Finite(nearby_df[k].rec.lon)

\* C16: when a run ends with a selected Record, the result computed for it
\* in that run holds the selected Record itself at distance 0, so the result
\* is not empty and the notice for an empty result is not shown, at either
\* radius.
C16_SelectedInOwnResult ==
    (selected # None /\ ~rerun /\ "tab1" \in ran) =>
        /\ \E k \in DOMAIN nearby_df :
              nearby_df[k].rec = selected /\ nearby_df[k].dist_m = 0
        /\ nearby_df # EmptyFrame
        /\ toast # "no_nearby_selected"

\* C17: the table is displayed in the order of the ranked result: its rows
\* are the rows of the result in ascending Distance Rank 1..N and ascending
\* true distance, also when several Records round to the same whole feet.
C17_TableInRankOrder ==
    table # NoTable =>
        /\ table.rows = nearby_df
        /\ \A k \in DOMAIN table.rows : table.rows[k].rank = k
        /\ \A k \in DOMAIN table.rows :
              k > 1 => table.rows[k - 1].dist_m <= table.rows[k].dist_m

\* a displayed table with two Records at different distances that round to
\* the same number of feet
C17_Witness ==
    /\ table # NoTable
    /\ \E k \in DOMAIN table.rows :
          /\ k > 1
          /\ table.rows[k - 1].dist_ft = table.rows[k].dist_ft
          /\ table.rows[k - 1].dist_m < table.rows[k].dist_m

\* C18: once sanitized, the dataset is the same after every interaction:
\* the same Records in the same order with the same fields and values, and
\* no distance annotation; the annotation is in the result only.
C18_DatasetUnchanged ==
    "prepare" \in ran =>
        /\ df_obj = df
        /\ \A i \in DOMAIN df_obj :
              DOMAIN df_obj[i] = {"addr", "lat", "lon"}

\* a query has just annotated its result with the distances
C18_Witness ==
    /\ event.type \in {"search", "radius"}
    /\ selected # None
    /\ Len(nearby_df) = 2
    /\ nearby_df[2].dist_m > 0
    /\ df_obj = df

====
